---- MODULE Spec2Model ----
(***************************************************************************)
(* A model of tesse_ros_bridge/utils.py: the frame conversion of agent     *)
(* metadata (process_metadata and its helpers), the finite-difference      *)
(* acceleration estimate (get_acc_brh) and the stereo camera calibration   *)
(* (generate_camera_info, make_camera_info_msg).                           *)
(*                                                                         *)
(* Numbers.  The program computes in IEEE doubles.  The model computes in  *)
(* exact rational arithmetic extended with the three non-finite doubles:   *)
(* a number is a pair <<n, d>> with d >= 0 and gcd(n, d) = 1, where        *)
(* <<1, 0>> is +inf, <<-1, 0>> is -inf and <<0, 0>> is nan.  Rounding is   *)
(* modelled only where the code compares two computed doubles for exact    *)
(* equality (fx == fy), as a nondeterministic rounding discrepancy.        *)
(***************************************************************************)
EXTENDS Integers, Sequences, FiniteSets, TLC

\* ------------------------------------------------------------- bounds
\* Largest |component| sum of a velocity vector drawn as an input.
MaxVel == 1
\* Largest sample time (and largest elapsed time dt) drawn as an input.
MaxTime == 2
\* Largest image width / height drawn as an input (the smallest is -1).
MaxDim == 2
\* Largest number of samples of each of the two streams processed side by
\* side.
MaxSteps == 2

\* ------------------------------------------------- double arithmetic
Abs(i) == IF i < 0 THEN -i ELSE i

Sign(i) == IF i < 0 THEN -1 ELSE IF i > 0 THEN 1 ELSE 0

RECURSIVE GCD(_, _)
GCD(a, b) == IF b = 0 THEN a ELSE GCD(b, a % b)

\* The canonical form of n/d (d >= 0): lowest terms; n/0 is +inf, -inf or nan.
Norm(n, d) ==
    IF d = 0 THEN <<Sign(n), 0>>
    ELSE LET g == GCD(Abs(n), d) IN <<n \div g, d \div g>>

\* An integer-valued double.
F(i) == <<i, 1>>

IsFinite(a) == a[2] # 0

IsNaN(a) == a[2] = 0 /\ a[1] = 0

\* a + b in doubles: inf + inf = inf, inf - inf = nan, nan absorbs.
FAdd(a, b) ==
    IF a[2] = 0 /\ b[2] = 0
    THEN (IF a = b THEN a ELSE <<0, 0>>)
    ELSE Norm(a[1] * b[2] + b[1] * a[2], a[2] * b[2])

FNeg(a) == <<-a[1], a[2]>>

FSub(a, b) == FAdd(a, FNeg(b))

\* a * b in doubles: 0 * inf = nan.
FMul(a, b) == Norm(a[1] * b[1], a[2] * b[2])

\* a / b in numpy doubles (no exception): x/0 is +-inf, 0/0 is nan.
FDiv(a, b) ==
    IF b[1] < 0 THEN Norm(-(a[1] * b[2]), a[2] * (-b[1]))
    ELSE Norm(a[1] * b[2], a[2] * b[1])

\* Python's a < b, a <= b on doubles: every comparison with nan is false.
FLt(a, b) ==
    /\ ~IsNaN(a) /\ ~IsNaN(b)
    /\ IF a[2] = 0 \/ b[2] = 0
       THEN (IF a[2] = 0 /\ b[2] = 0 THEN a[1] < b[1]
             ELSE IF a[2] = 0 THEN a[1] < 0 ELSE b[1] > 0)
       ELSE a[1] * b[2] < b[1] * a[2]

FEq(a, b) == ~IsNaN(a) /\ ~IsNaN(b) /\ a = b

FLe(a, b) == FLt(a, b) \/ FEq(a, b)

\* ------------------------------------------------ vectors and matrices
\* A vector is a sequence of doubles, a matrix a sequence of rows.
\* The sequence f with its elements evaluated once (numpy arrays hold values).
Eager(f) == f \o <<>>

VecI(v) == Eager([i \in 1..Len(v) |-> F(v[i])])

MatI(m) == Eager([i \in 1..Len(m) |-> VecI(m[i])])

RECURSIVE FSum(_)
FSum(s) == IF s = <<>> THEN F(0) ELSE FAdd(Head(s), FSum(Tail(s)))

\* numpy's a.dot(b) of two vectors: the products summed left to right.
Inner(u, v) == FSum(Eager([i \in 1..Len(u) |-> FMul(u[i], v[i])]))

\* numpy's M.dot(v).
Dot(M, v) == Eager([i \in 1..Len(M) |-> Inner(M[i], v)])

Col(M, j) == Eager([i \in 1..Len(M) |-> M[i][j]])

\* numpy's A.dot(B).
MatMul(A, B) ==
    Eager([i \in 1..Len(A) |->
        Eager([j \in 1..Len(B[1]) |-> Inner(A[i], Col(B, j))])])

\* numpy.transpose(M).
Transpose(M) == Eager([j \in 1..Len(M[1]) |-> Col(M, j)])

\* u + v where the code takes u - v.
VecSubAsAdd(u, v) == Eager([i \in 1..Len(u) |-> FAdd(u[i], v[i])])

VecSub(u, v) == Eager([i \in 1..Len(u) |-> FSub(u[i], v[i])])

\* numpy's v / s, elementwise.
VecDiv(v, s) == Eager([i \in 1..Len(v) |-> FDiv(v[i], s)])

VecFinite(v) == \A i \in 1..Len(v) : IsFinite(v[i])

Zero3 == VecI(<<0, 0, 0>>)

Identity3 == MatI(<<<<1, 0, 0>>, <<0, 1, 0>>, <<0, 0, 1>>>>)

\* ------------------------------------------------------ frame constants
\* Unity's left-handed world frame to ENU: the y and z axes are exchanged.
enu_T_unity ==
    MatI(<<<<1, 0, 0, 0>>, <<0, 0, 1, 0>>, <<0, 1, 0, 0>>, <<0, 0, 0, 1>>>>)

\* Left-handed body frame to right-handed body frame: the y axis is negated.
brh_T_blh ==
    MatI(<<<<1, 0, 0, 0>>, <<0, -1, 0, 0>>, <<0, 0, 1, 0>>, <<0, 0, 0, 1>>>>)

blh_T_brh == Transpose(brh_T_blh)

\* ------------------------------------------------------- accessors
\* transform[3,:3]: the bottom row where the code takes the last column.
get_translation_part_row(transform) == Eager([i \in 1..3 |-> transform[4][i]])

\* transform[:3,3]
get_translation_part(transform) == Eager([i \in 1..3 |-> transform[i][4]])

\* copy.deepcopy(transform)[:3,:3]
get_rotation_mat(transform) ==
    Eager([i \in 1..3 |-> Eager([j \in 1..3 |-> transform[i][j]])])

\* tf.transformations.quaternion_matrix: the homogeneous rotation matrix of
\* a quaternion (x, y, z, w), which it normalises; a quaternion of norm
\* below _EPS gives the identity.  q *= sqrt(2/nq) followed by outer(q, q)
\* is computed exactly as q_i * q_j * 2 / nq.
quaternion_matrix(quaternion) ==
    LET q  == quaternion
        nq == Inner(q, q)
        o  == Eager([i \in 1..4 |-> Eager([j \in 1..4 |->
                  FDiv(FMul(F(2), FMul(q[i], q[j])), nq)])])
        one == F(1)
    IN  IF nq = F(0)
        THEN MatI(<<<<1, 0, 0, 0>>, <<0, 1, 0, 0>>, <<0, 0, 1, 0>>, <<0, 0, 0, 1>>>>)
        ELSE << << FSub(FSub(one, o[2][2]), o[3][3]), FSub(o[1][2], o[3][4]),
                   FAdd(o[1][3], o[2][4]), F(0) >>,
                << FAdd(o[1][2], o[3][4]), FSub(FSub(one, o[1][1]), o[3][3]),
                   FSub(o[2][3], o[1][4]), F(0) >>,
                << FSub(o[1][3], o[2][4]), FAdd(o[2][3], o[1][4]),
                   FSub(FSub(one, o[1][1]), o[2][2]), F(0) >>,
                << F(0), F(0), F(0), F(1) >> >>

\* tf.transformations.quaternion_from_matrix.  The result is q * 0.5/sqrt(s):
\* the model keeps the unscaled q and the radicand s = t * M[3,3], and the
\* error math.sqrt or the division raises when s is not positive.
quaternion_from_matrix(M) ==
    LET tr == FAdd(FAdd(FAdd(M[1][1], M[2][2]), M[3][3]), M[4][4])
        i0 == IF FLt(M[1][1], M[2][2]) THEN 2 ELSE 1
        i  == IF FLt(M[i0][i0], M[3][3]) THEN 3 ELSE i0
        j  == (i % 3) + 1
        k  == (j % 3) + 1
        t2 == FAdd(FSub(M[i][i], FAdd(M[j][j], M[k][k])), M[4][4])
        big == FLt(M[4][4], tr)
        t  == IF big THEN tr ELSE t2
        q  == IF big
              THEN << FSub(M[3][2], M[2][3]), FSub(M[1][3], M[3][1]),
                      FSub(M[2][1], M[1][2]), tr >>
              ELSE Eager([n \in 1..4 |->
                      IF n = i THEN t2
                      ELSE IF n = j THEN FAdd(M[i][j], M[j][i])
                      ELSE IF n = k THEN FAdd(M[k][i], M[i][k])
                      ELSE FSub(M[k][j], M[j][k])])
        s  == FMul(t, M[4][4])
    IN  [error |-> IF FLt(s, F(0)) \/ IsNaN(s) THEN "ValueError"
                   ELSE IF s = F(0) THEN "ZeroDivisionError" ELSE "none",
         q |-> q, s |-> s]

\* R = deepcopy(transform); R[:,3] = [0,0,0,1]; quaternion_from_matrix(R)
get_quaternion(transform) ==
    quaternion_from_matrix(
        Eager([i \in 1..4 |-> Eager([j \in 1..4 |->
            IF j = 4 THEN (IF i = 4 THEN F(1) ELSE F(0))
            ELSE transform[i][j]])]))

\* ------------------------------------------------------ FrameConverter
\* convert_coordinate_frame without the right multiplication by blh_T_brh.
convert_coordinate_frame_blh(metadata) ==
    LET m == quaternion_matrix(metadata.quaternion)
        h == Append(metadata.position, F(1))
        unity_T_blh == Eager([i \in 1..4 |-> Eager([j \in 1..4 |->
                            IF j = 4 THEN h[i] ELSE m[i][j]])])
    IN  MatMul(enu_T_unity, unity_T_blh)

\* unity_T_blh = quaternion_matrix(q); unity_T_blh[:,3] = position + [1];
\* enu_T_unity.dot(unity_T_blh).dot(blh_T_brh)
convert_coordinate_frame(metadata) ==
    LET m == quaternion_matrix(metadata.quaternion)
        h == Append(metadata.position, F(1))
        unity_T_blh == Eager([i \in 1..4 |-> Eager([j \in 1..4 |->
                            IF j = 4 THEN h[i] ELSE m[i][j]])])
        enu_T_blh == MatMul(enu_T_unity, unity_T_blh)
    IN  MatMul(enu_T_blh, blh_T_brh)

\* -------------------------------------------------------- TwistAdapter
get_vel_brh(metadata) == Dot(get_rotation_mat(brh_T_blh), metadata.velocity)

\* unity_T_blh[:3,:3].dot(metadata['ang_vel']): the alternative the code
\* keeps in a comment, which rotates by the sample's own orientation.
get_ang_vel_brh_unity(metadata) ==
    Dot(get_rotation_mat(quaternion_matrix(metadata.quaternion)),
        metadata.ang_vel)

get_ang_vel_brh(metadata) == Dot(get_rotation_mat(brh_T_blh), metadata.ang_vel)

\* ------------------------------------------------ AccelerationEstimator
\* The assert left out (or compiled away).
AccPreconditionOff(dt) == TRUE

\* assert(dt > 0.0) where the code asserts dt >= 0.0.
AccPreconditionStrict(dt) == FLt(F(0), dt)

\* assert(dt >= 0.0)
AccPrecondition(dt) == FLe(F(0), dt)

\* The steps get_acc_brh has performed when it returns or raises.
NoOps == [lifted |-> FALSE, differenced |-> FALSE, divided |-> FALSE,
          projected |-> FALSE]

AllOps == [lifted |-> TRUE, differenced |-> TRUE, divided |-> TRUE,
           projected |-> TRUE]

\* get_acc_brh with the previous velocity lifted by the current rotation:
\* the difference of the body-frame velocities.
get_acc_brh_body(enu_R_brh, vel_brh, prev_vel_brh, prev_enu_R_brh, dt) ==
    LET args == [enu_R_brh |-> enu_R_brh, vel_brh |-> vel_brh,
                 prev_vel_brh |-> prev_vel_brh,
                 prev_enu_R_brh |-> prev_enu_R_brh, dt |-> dt]
        vel_enu      == Dot(enu_R_brh, vel_brh)
        prev_vel_enu == Dot(enu_R_brh, prev_vel_brh)
        accel_enu    == VecDiv(VecSub(vel_enu, prev_vel_enu), dt)
    IN  IF ~AccPrecondition(dt)
        THEN [status |-> "AssertionError", args |-> args, ops |-> NoOps,
              value |-> Zero3]
        ELSE [status |-> "ok", args |-> args, ops |-> AllOps,
              value |-> Dot(Transpose(enu_R_brh), accel_enu)]

\* get_acc_brh: the record of one call, with its arguments, the steps it
\* performed, how it ended and what it returned.
get_acc_brh(enu_R_brh, vel_brh, prev_vel_brh, prev_enu_R_brh, dt) ==
    LET args == [enu_R_brh |-> enu_R_brh, vel_brh |-> vel_brh,
                 prev_vel_brh |-> prev_vel_brh,
                 prev_enu_R_brh |-> prev_enu_R_brh, dt |-> dt]
        vel_enu      == Dot(enu_R_brh, vel_brh)
        prev_vel_enu == Dot(prev_enu_R_brh, prev_vel_brh)
        accel_enu    == VecDiv(VecSub(vel_enu, prev_vel_enu), dt)
    IN  IF ~AccPrecondition(dt)
        THEN [status |-> "AssertionError", args |-> args, ops |-> NoOps,
              value |-> Zero3]
        ELSE [status |-> "ok", args |-> args, ops |-> AllOps,
              value |-> Dot(Transpose(enu_R_brh), accel_enu)]

NoAccCall ==
    [status |-> "none",
     args |-> [enu_R_brh |-> Identity3, vel_brh |-> Zero3,
               prev_vel_brh |-> Zero3, prev_enu_R_brh |-> Identity3,
               dt |-> F(0)],
     ops |-> NoOps, value |-> Zero3]

\* --------------------------------------------------------- MessageBuilder
\* make_camera_info_msg with Tx and Ty exchanged in P.
make_camera_info_msg_swapped(frame_id, width, height, fx, fy, cx, cy, Tx, Ty) ==
    [frame_id |-> frame_id,
     width |-> width,
     height |-> height,
     K |-> << fx, F(0), cx,
              F(0), fy, cy,
              F(0), F(0), F(1) >>,
     R |-> << F(1), F(0), F(0),
              F(0), F(1), F(0),
              F(0), F(0), F(1) >>,
     distortion_model |-> "plumb_bob",
     D |-> << F(0), F(0), F(0), F(0) >>,
     P |-> << fx, F(0), cx, Ty,
              F(0), fy, cy, Tx,
              F(0), F(0), F(1), F(0) >>]

\* make_camera_info_msg: the CameraInfo message, K, R and P row by row.
make_camera_info_msg(frame_id, width, height, fx, fy, cx, cy, Tx, Ty) ==
    [frame_id |-> frame_id,
     width |-> width,
     height |-> height,
     K |-> << fx, F(0), cx,
              F(0), fy, cy,
              F(0), F(0), F(1) >>,
     R |-> << F(1), F(0), F(0),
              F(0), F(1), F(0),
              F(0), F(0), F(1) >>,
     distortion_model |-> "plumb_bob",
     D |-> << F(0), F(0), F(0), F(0) >>,
     P |-> << fx, F(0), cx, Tx,
              F(0), fy, cy, Ty,
              F(0), F(0), F(1), F(0) >>]

NoMsg ==
    make_camera_info_msg("", 0, 0, F(0), F(0), F(0), F(0), F(0), F(0))

\* ------------------------------------------- CameraIntrinsicsCalculator
\* A camera's vertical field of view is represented by the tangent of its
\* half, tan(deg2rad(fov) / 2), for fields of view in (0, 180) degrees:
\* two fields of view are equal exactly when these tangents are.
TanHalf(fov) == fov

\* dim / 2 as true division under every interpreter.
HalfDimTrue(dim, floor_div) == FDiv(F(dim), F(2))

\* dim / 2 on a Python int: floor division where the interpreter's / on two
\* ints is floor division (Python 2), true division otherwise (Python 3).
HalfDim(dim, floor_div) ==
    IF floor_div THEN F(dim \div 2) ELSE FDiv(F(dim), F(2))

\* dim // 2
FloorHalf(dim) == F(dim \div 2)

\* tan(deg2rad(fov_horizontal_left) / 2), where fov_horizontal_left is
\* rad2deg(2.0 * arctan(tan(deg2rad(fov_vertical_left) / 2.0) * width / height))
TanHalfHorizontal(fov_vertical, width, height) ==
    FDiv(FMul(TanHalf(fov_vertical), F(width)), F(height))

\* fx = (width / 2.0) / tan(deg2rad(fov_horizontal) / 2.0)
FocalX(fov_vertical, width, height) ==
    FDiv(FDiv(F(width), F(2)), TanHalfHorizontal(fov_vertical, width, height))

\* fy = (height / 2.0) / tan(deg2rad(fov_vertical) / 2.0)
FocalY(fov_vertical, height) ==
    FDiv(FDiv(F(height), F(2)), TanHalf(fov_vertical))

\* The five precondition asserts of generate_camera_info, in the order the
\* code makes them, without the comparison of the fields of view.
CameraPreconditionNoFov(left, right) ==
    IF ~(left.width = right.width) THEN 1
    ELSE IF ~(left.height = right.height) THEN 2
    ELSE IF ~(left.height > 0) THEN 4
    ELSE IF ~(left.width > 0) THEN 5
    ELSE 0

\* The five precondition asserts of generate_camera_info, in the order the
\* code makes them: the number of the first that fails, 0 when none does.
CameraPrecondition(left, right) ==
    IF ~(left.width = right.width) THEN 1
    ELSE IF ~(left.height = right.height) THEN 2
    ELSE IF ~FEq(left.fov, right.fov) THEN 3
    ELSE IF ~(left.height > 0) THEN 4
    ELSE IF ~(left.width > 0) THEN 5
    ELSE 0

\* All the asserts of generate_camera_info in the order the code makes
\* them: the number of the first that fails, 0 when none does.  6 is
\* assert(fx == fy), 7 and 8 are the asserts on cx and cy.
FirstFailedAssert(left, right, floor_div, ulps) ==
    LET w  == left.width
        h  == left.height
        fx == FocalX(left.fov, w, h)
        fy == FocalY(left.fov, h)
        pre == CameraPrecondition(left, right)
    IN  IF pre # 0 THEN pre
        ELSE IF ~(FEq(fx, fy) /\ ulps = 0) THEN 6
        ELSE IF ~FEq(HalfDim(w, floor_div), FloorHalf(w)) THEN 7
        ELSE IF ~FEq(HalfDim(h, floor_div), FloorHalf(h)) THEN 8
        ELSE 0

\* np.abs(x) without the absolute value taken.
FAbsOmitted(a) == a

\* np.abs(x)
FAbs(a) == <<Abs(a[1]), a[2]>>

\* generate_camera_info: the record of one call, with its arguments, the
\* assert that stopped it, how it ended and the two messages it returned.
\* floor_div is the interpreter's int division; ulps is the rounding
\* discrepancy between the computed doubles fx and fy, which are equal as
\* real numbers.
generate_camera_info(left_cam_data, right_cam_data, floor_div, ulps) ==
    LET args == [left |-> left_cam_data, right |-> right_cam_data,
                 floor_div |-> floor_div, ulps |-> ulps]
        w  == left_cam_data.width
        h  == left_cam_data.height
        failed == FirstFailedAssert(left_cam_data, right_cam_data,
                                    floor_div, ulps)
        fx == FocalX(left_cam_data.fov, w, h)
        fy == FocalY(left_cam_data.fov, h)
        cx == HalfDim(w, floor_div)
        cy == HalfDim(h, floor_div)
        baseline == FAbs(FSub(left_cam_data.position[1],
                              right_cam_data.position[1]))
        Tx == F(0)
        Ty == F(0)
        Tx_right == FMul(FNeg(fx), baseline)
    IN  IF failed # 0
        THEN [status |-> "AssertionError", failed |-> failed, args |-> args,
              left |-> NoMsg, right |-> NoMsg]
        ELSE [status |-> "ok", failed |-> 0, args |-> args,
              left |-> make_camera_info_msg("left_cam", w, h,
                                            fx, fy, cx, cy, Tx, Ty),
              right |-> make_camera_info_msg("right_cam", w, h,
                                             fx, fy, cx, cy, Tx_right, Ty)]

\* -------------------------------------------------------------- inputs
\* Integer 3-vectors whose components' magnitudes sum to at most b.
Ball(b) ==
    {v \in [1..3 -> (-b)..b] : Abs(v[1]) + Abs(v[2]) + Abs(v[3]) <= b}

\* Body-frame velocities handed to get_acc_brh directly.
Velocities == {VecI(v) : v \in Ball(MaxVel)}

\* Quaternions (x, y, z, w) of the samples, not all of unit norm: no
\* rotation, a half turn about x, a third of a turn about (1,1,1), the
\* rotation about z with cosine 3/5, and the zero quaternion.
Quaternions ==
    {VecI(q) : q \in {<<0, 0, 0, 1>>, <<1, 0, 0, 0>>, <<1, 1, 1, 1>>,
                       <<0, 0, 1, 2>>, <<0, 0, 0, 0>>}}

\* Rotation blocks handed to get_acc_brh directly.
Rotations == {get_rotation_mat(quaternion_matrix(q)) : q \in Quaternions}

\* Elapsed times handed to get_acc_brh directly.
Dts == {F(i) : i \in (-1)..MaxTime}

\* The samples of a telemetry stream (ParsedMetadata).
Positions == {VecI(<<0, 0, 0>>), VecI(<<1, 2, 3>>)}

SampleVelocities == {VecI(<<0, 0, 0>>), VecI(<<1, -2, 3>>)}

SampleAngVels == {VecI(<<0, 0, 0>>), VecI(<<0, 1, 0>>)}

Times == {F(i) : i \in 0..MaxTime}

Samples ==
    [position : Positions, quaternion : Quaternions,
     velocity : SampleVelocities, ang_vel : SampleAngVels,
     time : Times, collision_status : BOOLEAN]

\* The samples of the streams followed update after update.
StreamSamples ==
    {m \in Samples : /\ m.position = VecI(<<1, 2, 3>>)
                     /\ m.ang_vel = Zero3
                     /\ m.collision_status}

\* Image widths and heights of the camera requests.
Dims == (-1)..MaxDim

\* Vertical fields of view of the camera requests: 90 degrees (tangent of
\* the half 1) and about 53.13 degrees (tangent of the half 1/2).
Fovs == {<<1, 1>>, <<1, 2>>}

\* The rounding discrepancy, in units of the last place, between the
\* computed doubles fx and fy.
Ulps == {0, 1}

CamPositions == {VecI(<<0, 0, 0>>), VecI(<<-1, 0, 0>>), VecI(<<1, 2, 3>>)}

\* The parsed camera requests (the fields generate_camera_info reads).
CamRequests ==
    [width : Dims, height : Dims, fov : Fovs, position : CamPositions]

\* --------------------------------------------------------------- state
VARIABLES
    acc,    \* the last call of get_acc_brh
    prev,   \* the caller-held previous sample: time, vel_brh, enu_R_brh
    call,   \* the last call of process_metadata
    cam,    \* the last call of generate_camera_info
    msg,    \* the last direct call of make_camera_info_msg
    twist,  \* the last calls of get_vel_brh and get_ang_vel_brh
    par     \* two telemetry streams processed side by side

vars == <<acc, prev, call, cam, msg, twist, par>>

\* ---------------------------------------------------- MetadataProcessor
NoOutput ==
    [position |-> Zero3, quaternion |-> get_quaternion(MatI(
        <<<<1, 0, 0, 0>>, <<0, 1, 0, 0>>, <<0, 0, 1, 0>>, <<0, 0, 0, 1>>>>)),
     velocity |-> Zero3, ang_vel |-> Zero3, acceleration |-> Zero3,
     time |-> F(0), collision_status |-> FALSE,
     transform |-> MatI(
        <<<<1, 0, 0, 0>>, <<0, 1, 0, 0>>, <<0, 0, 1, 0>>, <<0, 0, 0, 1>>>>)]

\* process_metadata: the record of one call, with its arguments, the nested
\* call of get_acc_brh, how it ended and the dictionary it returned.
process_metadata(metadata, prev_time, prev_vel_brh, prev_enu_R_brh) ==
    LET enu_T_brh   == convert_coordinate_frame(metadata)
        enu_t_brh   == get_translation_part(enu_T_brh)
        enu_R_brh   == get_rotation_mat(enu_T_brh)
        enu_q_brh   == get_quaternion(enu_T_brh)
        vel_brh     == get_vel_brh(metadata)
        ang_vel_brh == get_ang_vel_brh(metadata)
        dt          == FSub(metadata.time, prev_time)
        a           == get_acc_brh(enu_R_brh, vel_brh, prev_vel_brh,
                                   prev_enu_R_brh, dt)
        args == [metadata |-> metadata, prev_time |-> prev_time,
                 prev_vel_brh |-> prev_vel_brh,
                 prev_enu_R_brh |-> prev_enu_R_brh]
    IN  IF enu_q_brh.error # "none"
        THEN [status |-> enu_q_brh.error, args |-> args, acc |-> NoAccCall,
              out |-> NoOutput]
        ELSE IF a.status # "ok"
        THEN [status |-> a.status, args |-> args, acc |-> a, out |-> NoOutput]
        ELSE [status |-> "ok", args |-> args, acc |-> a,
              out |-> [position |-> enu_t_brh, quaternion |-> enu_q_brh,
                       velocity |-> vel_brh, ang_vel |-> ang_vel_brh,
                       acceleration |-> a.value, time |-> metadata.time,
                       collision_status |-> metadata.collision_status,
                       transform |-> enu_T_brh]]

NoCall ==
    [status |-> "none",
     args |-> [metadata |-> [position |-> Zero3,
                             quaternion |-> VecI(<<0, 0, 0, 1>>),
                             velocity |-> Zero3, ang_vel |-> Zero3,
                             time |-> F(0), collision_status |-> FALSE],
               prev_time |-> F(0), prev_vel_brh |-> Zero3,
               prev_enu_R_brh |-> Identity3],
     acc |-> NoAccCall, out |-> NoOutput]

\* The previous sample the caller keeps after a call: the output's time,
\* velocity and rotation block when the call succeeded, unchanged when it
\* raised.
NextPrev(c, p) ==
    IF c.status = "ok"
    THEN [time |-> c.out.time, vel_brh |-> c.out.velocity,
          enu_R_brh |-> get_rotation_mat(c.out.transform)]
    ELSE p

\* ------------------------------------------------------------- actions
\* The arguments of a call of get_acc_brh that has not run yet.
AccCalls ==
    {[status |-> "pending",
      args |-> [enu_R_brh |-> R, vel_brh |-> v, prev_vel_brh |-> pv,
                prev_enu_R_brh |-> pR, dt |-> dt],
      ops |-> NoOps, value |-> Zero3] :
        R \in Rotations, v \in Velocities, pv \in Velocities,
        pR \in Rotations, dt \in Dts}

\* A direct call of get_acc_brh on the pending arguments.
GetAccBrh ==
    /\ acc.status = "pending"
    /\ acc' = get_acc_brh(acc.args.enu_R_brh, acc.args.vel_brh,
                          acc.args.prev_vel_brh, acc.args.prev_enu_R_brh,
                          acc.args.dt)
    /\ UNCHANGED <<prev, call, cam, msg, twist, par>>

\* The previous samples a caller can hold: a time, a right-handed body
\* velocity and a rotation block that process_metadata returned.
PrevSamples ==
    [time : Times,
     vel_brh : {get_vel_brh([velocity |-> v]) : v \in SampleVelocities},
     enu_R_brh : {get_rotation_mat(convert_coordinate_frame(
                      [quaternion |-> q, position |-> Zero3])) :
                  q \in Quaternions}]

PendingCall(metadata, p) ==
    [status |-> "pending",
     args |-> [metadata |-> metadata, prev_time |-> p.time,
               prev_vel_brh |-> p.vel_brh,
               prev_enu_R_brh |-> p.enu_R_brh],
     acc |-> NoAccCall, out |-> NoOutput]

\* A telemetry update arrives: the caller is about to call process_metadata
\* on it with the previous sample it holds.
Arrive ==
    \E metadata \in StreamSamples :
        /\ call.status # "pending"
        /\ call' = PendingCall(metadata, prev)
        /\ UNCHANGED <<acc, prev, cam, msg, twist, par>>

\* process_metadata on the sample that arrived, then the caller's update of
\* the previous sample it holds.
ProcessMetadata ==
    /\ call.status = "pending"
    /\ LET c == process_metadata(call.args.metadata, call.args.prev_time,
                                 call.args.prev_vel_brh,
                                 call.args.prev_enu_R_brh)
       IN  /\ call' = c
           /\ prev' = NextPrev(c, prev)
    /\ UNCHANGED <<acc, cam, msg, twist, par>>

\* The arguments of a call of generate_camera_info that has not run yet.
CamCalls ==
    {[status |-> "pending", failed |-> 0,
      args |-> [left |-> l, right |-> r, floor_div |-> fd, ulps |-> u],
      left |-> NoMsg, right |-> NoMsg] :
        l \in CamRequests, r \in CamRequests, fd \in BOOLEAN, u \in Ulps}

GenerateCameraInfo ==
    /\ cam.status = "pending"
    /\ cam' = generate_camera_info(cam.args.left, cam.args.right,
                                   cam.args.floor_div, cam.args.ulps)
    /\ UNCHANGED <<acc, prev, call, msg, twist, par>>

\* The arguments of a direct call of make_camera_info_msg.
MsgCalls ==
    {[status |-> "pending",
      args |-> [frame_id |-> id, width |-> w, height |-> h, fx |-> fx,
                fy |-> fy, cx |-> cx, cy |-> cy, Tx |-> Tx, Ty |-> Ty],
      out |-> NoMsg] :
        id \in {"left_cam", "right_cam"}, w \in 1..MaxDim, h \in 1..MaxDim,
        fx \in {F(1), F(2)}, fy \in {F(1), F(3)},
        cx \in {F(0), <<1, 2>>}, cy \in {F(1), <<3, 2>>},
        Tx \in {F(0), F(-2)}, Ty \in {F(0), F(5)}}

MakeCameraInfoMsg ==
    /\ msg.status = "pending"
    /\ msg' = [status |-> "ok", args |-> msg.args,
               out |-> make_camera_info_msg(
                   msg.args.frame_id, msg.args.width, msg.args.height,
                   msg.args.fx, msg.args.fy, msg.args.cx, msg.args.cy,
                   msg.args.Tx, msg.args.Ty)]
    /\ UNCHANGED <<acc, prev, call, cam, twist, par>>

\* ------------------------------------------------- TwistAdapter calls
\* What a sample holds besides its velocity and angular velocity, with the
\* previous sample its call of process_metadata receives.
TwistContexts ==
    {[position |-> Zero3, quaternion |-> VecI(<<0, 0, 0, 1>>), time |-> F(1),
      collision_status |-> FALSE,
      prev |-> [time |-> F(0), vel_brh |-> Zero3, enu_R_brh |-> Identity3]],
     [position |-> VecI(<<1, 2, 3>>), quaternion |-> VecI(<<0, 0, 1, 2>>),
      time |-> F(2), collision_status |-> TRUE,
      prev |-> [time |-> F(1), vel_brh |-> VecI(<<1, 2, 3>>),
                enu_R_brh |-> Identity3]],
     [position |-> VecI(<<1, 2, 3>>), quaternion |-> VecI(<<1, 1, 1, 1>>),
      time |-> F(2), collision_status |-> FALSE,
      prev |-> [time |-> F(2), vel_brh |-> Zero3,
                enu_R_brh |-> get_rotation_mat(
                    quaternion_matrix(VecI(<<1, 0, 0, 0>>)))]]}

\* The sample of context c with velocity vel and angular velocity ang.
SampleOf(c, vel, ang) ==
    [position |-> c.position, quaternion |-> c.quaternion, velocity |-> vel,
     ang_vel |-> ang, time |-> c.time,
     collision_status |-> c.collision_status]

VecAdd(u, v) == Eager([i \in 1..Len(u) |-> FAdd(u[i], v[i])])

\* The velocity and angular velocity fields process_metadata returns.
TwistFields(c) == [status |-> c.status, velocity |-> c.out.velocity,
                   ang_vel |-> c.out.ang_vel]

NoTwist ==
    [status |-> "none", a |-> Zero3, b |-> Zero3,
     c1 |-> CHOOSE c \in TwistContexts : c.time = F(1),
     c2 |-> CHOOSE c \in TwistContexts : c.time = F(1),
     va |-> Zero3, vb |-> Zero3, vab |-> Zero3, v0 |-> Zero3,
     wa |-> Zero3, wb |-> Zero3, wab |-> Zero3, w0 |-> Zero3,
     p1 |-> TwistFields(NoCall), p2 |-> TwistFields(NoCall)]

\* Two vectors and two contexts on which the adapters have not run yet.
TwistCalls ==
    {[NoTwist EXCEPT !.status = "pending", !.a = a, !.b = b,
                     !.c1 = c1, !.c2 = c2] :
        a \in Velocities, b \in Velocities,
        c1 \in TwistContexts, c2 \in TwistContexts}

\* get_vel_brh and get_ang_vel_brh on a, b, a + b and zero in the first
\* context, and process_metadata on the sample with velocity a and angular
\* velocity b in each of the two contexts.
Twist ==
    /\ twist.status = "pending"
    /\ LET a == twist.a
           b == twist.b
           c1 == twist.c1
           c2 == twist.c2
           ab == VecAdd(a, b)
       IN  twist' =
            [twist EXCEPT
                !.status = "ok",
                !.va = get_vel_brh(SampleOf(c1, a, b)),
                !.vb = get_vel_brh(SampleOf(c1, b, a)),
                !.vab = get_vel_brh(SampleOf(c1, ab, b)),
                !.v0 = get_vel_brh(SampleOf(c1, Zero3, b)),
                !.wa = get_ang_vel_brh(SampleOf(c1, b, a)),
                !.wb = get_ang_vel_brh(SampleOf(c1, a, b)),
                !.wab = get_ang_vel_brh(SampleOf(c1, a, ab)),
                !.w0 = get_ang_vel_brh(SampleOf(c1, a, Zero3)),
                !.p1 = TwistFields(process_metadata(
                            SampleOf(c1, a, b), c1.prev.time,
                            c1.prev.vel_brh, c1.prev.enu_R_brh)),
                !.p2 = TwistFields(process_metadata(
                            SampleOf(c2, a, b), c2.prev.time,
                            c2.prev.vel_brh, c2.prev.enu_R_brh))]
    /\ UNCHANGED <<acc, prev, call, cam, msg, par>>

\* ------------------------------------------------- two streams
\* The samples fed to the two streams: one whose time goes back, two that
\* differ in orientation, position, velocity and collision status.
ParSamples ==
    {[position |-> VecI(<<1, 2, 3>>), quaternion |-> VecI(<<0, 0, 1, 2>>),
      velocity |-> VecI(<<1, -2, 3>>), ang_vel |-> VecI(<<0, 1, 0>>),
      time |-> F(2), collision_status |-> TRUE],
     [position |-> Zero3, quaternion |-> VecI(<<1, 1, 1, 1>>),
      velocity |-> VecI(<<0, 0, 1>>), ang_vel |-> Zero3,
      time |-> F(1), collision_status |-> FALSE],
     [position |-> VecI(<<1, 2, 3>>), quaternion |-> VecI(<<0, 0, 0, 1>>),
      velocity |-> Zero3, ang_vel |-> VecI(<<0, 1, 0>>),
      time |-> F(0), collision_status |-> FALSE]}

\* The previous sample each stream's caller starts with.
ParSeeds ==
    << [time |-> F(0), vel_brh |-> Zero3, enu_R_brh |-> Identity3],
       [time |-> F(1), vel_brh |-> Zero3, enu_R_brh |-> Identity3] >>

\* The module-level frame constants, as objects process_metadata reads.
FrameObjects ==
    [enu_T_unity |-> enu_T_unity, brh_T_blh |-> brh_T_blh,
     blh_T_brh |-> blh_T_brh]

\* The objects handed to a call of process_metadata and the frame
\* constants, as they are when the call starts.
MemoryAtCall(metadata, p, frames) ==
    [metadata |-> metadata, prev_vel_brh |-> p.vel_brh,
     prev_enu_R_brh |-> p.enu_R_brh, frames |-> frames]

\* metadata['position'].append(1) where the code builds a new list with
\* metadata['position'] + [1]: the sample's position grows in place.
MemoryAfterCallAppend(mem) ==
    [mem EXCEPT !.metadata.position = Append(@, F(1))]

\* The same objects when the call has returned or raised.  The code writes
\* only to arrays it has created itself: the array quaternion_matrix
\* returns (unity_T_blh[:,3] = ...) and deep copies of the transform
\* (get_rotation_mat, get_quaternion); metadata['position'] + [1] is a new
\* list.
MemoryAfterCall(mem) == mem

\* What a caller sees of a call: how it ended and the dictionary returned.
Result(c) == [status |-> c.status, out |-> c.out]

\* The previous sample the caller of stream s holds.
PrevOf(prevs, s) == prevs[s]

\* The results a stream produces when its samples are processed alone,
\* one after the other, starting from the previous sample p.
RECURSIVE AloneRun(_, _)
AloneRun(p, samples) ==
    IF samples = <<>> THEN <<>>
    ELSE LET c == process_metadata(Head(samples), p.time, p.vel_brh,
                                   p.enu_R_brh)
         IN  <<Result(c)>> \o AloneRun(NextPrev(c, p), Tail(samples))

NoPar ==
    [prev |-> ParSeeds,
     fed |-> << <<>>, <<>> >>,
     held |-> << <<>>, <<>> >>,
     outs |-> << <<>>, <<>> >>,
     again |-> << <<>>, <<>> >>,
     frames |-> FrameObjects]

\* One update of stream s: process_metadata on the new sample and the
\* previous sample the stream's caller holds, the same call repeated on
\* the same objects, then the caller's update of its previous sample.
\*   fed: the samples as they were handed over; held: the same sample
\*   objects after the calls; outs: the results; again: the results of the
\*   repeated calls.
ParStep(s) ==
    /\ Len(par.fed[s]) < MaxSteps
    /\ \E m \in ParSamples :
        \E p \in {PrevOf(par.prev, s)} :
        \E c \in {process_metadata(m, p.time, p.vel_brh, p.enu_R_brh)} :
        \E mem \in {MemoryAfterCall(MemoryAtCall(m, p, par.frames))} :
        \E c2 \in {process_metadata(mem.metadata, p.time, mem.prev_vel_brh,
                                    mem.prev_enu_R_brh)} :
        \E mem2 \in {MemoryAfterCall(mem)} :
        \E held \in {[time |-> p.time, vel_brh |-> mem2.prev_vel_brh,
                      enu_R_brh |-> mem2.prev_enu_R_brh]} :
            par' = [par EXCEPT
                      !.fed[s] = Append(@, m),
                      !.held[s] = Append(@, mem2.metadata),
                      !.outs[s] = Append(@, Result(c)),
                      !.again[s] = Append(@, Result(c2)),
                      !.prev[s] = NextPrev(c, held),
                      !.frames = mem2.frames]
    /\ UNCHANGED <<acc, prev, call, cam, msg, twist>>

NextPar == ParStep(1) \/ ParStep(2)


\* ------------------------------------------------------ specifications
\* The previous sample a caller seeds a stream with before its first call.
Seeds ==
    [time : Times, vel_brh : {Zero3}, enu_R_brh : {Identity3}]

NoPrev == [time |-> F(0), vel_brh |-> Zero3, enu_R_brh |-> Identity3]

NoCamCall ==
    [status |-> "none", failed |-> 0,
     args |-> [left |-> [width |-> 0, height |-> 0, fov |-> F(1),
                         position |-> Zero3],
               right |-> [width |-> 0, height |-> 0, fov |-> F(1),
                          position |-> Zero3],
               floor_div |-> FALSE, ulps |-> 0],
     left |-> NoMsg, right |-> NoMsg]

NoMsgCall ==
    [status |-> "none",
     args |-> [frame_id |-> "", width |-> 0, height |-> 0, fx |-> F(0),
               fy |-> F(0), cx |-> F(0), cy |-> F(0), Tx |-> F(0),
               Ty |-> F(0)],
     out |-> NoMsg]

\* get_acc_brh called once on arguments drawn from the input sets.
InitAcc ==
    /\ acc \in AccCalls
    /\ prev = NoPrev /\ call = NoCall /\ cam = NoCamCall /\ msg = NoMsgCall
    /\ twist = NoTwist /\ par = NoPar

SpecAcc == InitAcc /\ [][GetAccBrh]_vars

\* process_metadata called once on a sample and a previous sample drawn
\* from the input sets.
InitCall ==
    /\ \E m \in Samples, p \in PrevSamples :
          /\ prev = p
          /\ call = PendingCall(m, p)
    /\ acc = NoAccCall /\ cam = NoCamCall /\ msg = NoMsgCall
    /\ twist = NoTwist /\ par = NoPar

SpecCall == InitCall /\ [][ProcessMetadata]_vars

\* A telemetry stream: process_metadata called update after update, each
\* call with the previous sample the caller kept from the last success.
InitMeta ==
    /\ prev \in Seeds
    /\ call = NoCall /\ acc = NoAccCall /\ cam = NoCamCall /\ msg = NoMsgCall
    /\ twist = NoTwist /\ par = NoPar

NextMeta == Arrive \/ ProcessMetadata

SpecMeta == InitMeta /\ [][NextMeta]_vars

\* generate_camera_info called once on two camera requests.
InitCam ==
    /\ cam \in CamCalls
    /\ acc = NoAccCall /\ prev = NoPrev /\ call = NoCall /\ msg = NoMsgCall
    /\ twist = NoTwist /\ par = NoPar

SpecCam == InitCam /\ [][GenerateCameraInfo]_vars

\* make_camera_info_msg called once on arguments drawn from the input sets.
InitMsg ==
    /\ msg \in MsgCalls
    /\ acc = NoAccCall /\ prev = NoPrev /\ call = NoCall /\ cam = NoCamCall
    /\ twist = NoTwist /\ par = NoPar

SpecMsg == InitMsg /\ [][MakeCameraInfoMsg]_vars

\* get_vel_brh, get_ang_vel_brh and process_metadata called on vectors and
\* contexts drawn from the input sets.
InitTwist ==
    /\ twist \in TwistCalls
    /\ acc = NoAccCall /\ prev = NoPrev /\ call = NoCall
    /\ cam = NoCamCall /\ msg = NoMsgCall /\ par = NoPar

SpecTwist == InitTwist /\ [][Twist]_vars

\* Two telemetry streams, each with its own caller-held previous sample,
\* processed in any interleaving.
InitPar ==
    /\ par = NoPar
    /\ acc = NoAccCall /\ prev = NoPrev /\ call = NoCall
    /\ cam = NoCamCall /\ msg = NoMsgCall /\ twist = NoTwist

SpecPar == InitPar /\ [][NextPar]_vars

\* ---------------------------------------------------------- properties
AccReturned == acc.status \in {"ok", "AssertionError"}

\* C1: get_acc_brh called with dt < 0 fails with the assertion error before
\* any velocity is lifted to the world frame, any difference is taken or
\* any division is performed, and returns no acceleration.
C1_NegativeDtFailsFirst ==
    (AccReturned /\ acc.args.dt[1] < 0)
        => /\ acc.status = "AssertionError"
           /\ ~acc.ops.lifted /\ ~acc.ops.differenced
           /\ ~acc.ops.divided /\ ~acc.ops.projected

C1_Witness ==
    /\ acc.status = "AssertionError"
    /\ acc.args.dt = F(-1)
    /\ acc.args.vel_brh # acc.args.prev_vel_brh

\* C2: with dt == 0 the estimate is rejected before the division by dt:
\* get_acc_brh never divides by a zero dt and never returns a non-finite
\* acceleration.
C2_ZeroDtRejected ==
    (AccReturned /\ acc.args.dt = F(0))
        => /\ ~acc.ops.divided
           /\ acc.status = "ok" => VecFinite(acc.value)

\* C8: with the current and the previous rotation equal, the current and
\* the previous velocity equal and dt > 0, get_acc_brh returns the zero
\* acceleration.
C8_NoChangeNoAcceleration ==
    (/\ AccReturned
     /\ acc.args.dt[1] > 0
     /\ acc.args.enu_R_brh = acc.args.prev_enu_R_brh
     /\ acc.args.vel_brh = acc.args.prev_vel_brh)
        => /\ acc.status = "ok"
           /\ acc.value = <<F(0), F(0), F(0)>>

C8_Witness ==
    /\ acc.status = "ok"
    /\ acc.args.dt = F(2)
    /\ acc.args.enu_R_brh = acc.args.prev_enu_R_brh
    /\ acc.args.vel_brh = acc.args.prev_vel_brh
    /\ acc.args.enu_R_brh[1][1] = <<3, 5>>
    /\ acc.args.vel_brh[1] = F(1)
    /\ acc.value = <<F(0), F(0), F(0)>>

CamReturned == cam.status \in {"ok", "AssertionError"}

\* The camera pair breaks a precondition of generate_camera_info.
CamPairInvalid ==
    LET l == cam.args.left
        r == cam.args.right
    IN  \/ l.width # r.width
        \/ l.height # r.height
        \/ l.fov # r.fov
        \/ l.width <= 0 \/ r.width <= 0
        \/ l.height <= 0 \/ r.height <= 0

\* C3: generate_camera_info fails, returning no message pair, whenever the
\* two requests differ in width, height or vertical field of view or the
\* width or height is not positive; for a pair that agrees on all three
\* with positive width and height none of the five precondition asserts
\* fails.
C3_CameraPreconditions ==
    CamReturned
        => /\ CamPairInvalid
                => /\ cam.status = "AssertionError"
                   /\ cam.failed \in 1..5
                   /\ cam.left = NoMsg /\ cam.right = NoMsg
           /\ ~CamPairInvalid => cam.failed \notin 1..5

C3_Witness ==
    /\ cam.status = "AssertionError"
    /\ cam.args.left.width = cam.args.right.width
    /\ cam.args.left.height = cam.args.right.height
    /\ cam.args.left.width > 0 /\ cam.args.left.height > 0
    /\ cam.args.left.fov # cam.args.right.fov
    /\ cam.args.ulps = 0

\* C4: when generate_camera_info succeeds the two messages share fx, fy,
\* cx, cy with fx == fy, the left Tx is 0, both Ty are 0 and the right Tx is
\* -fx * |left.position.x - right.position.x|: never positive, whatever the
\* y and z components and whichever camera lies to the left.
C4_StereoProjection ==
    cam.status = "ok"
        => LET L == cam.left
               R == cam.right
               fx == L.K[1]
               dx == FSub(cam.args.left.position[1],
                          cam.args.right.position[1])
               absdx == IF FLt(dx, F(0)) THEN FNeg(dx) ELSE dx
           IN  /\ L.K = R.K
               /\ \A n \in {1, 2, 3, 5, 6, 7, 8, 9, 10, 11, 12} : L.P[n] = R.P[n]
               /\ L.P[1] = fx /\ L.P[6] = L.K[5]
               /\ L.P[3] = L.K[3] /\ L.P[7] = L.K[6]
               /\ FEq(L.K[1], L.K[5])
               /\ L.P[4] = F(0)
               /\ L.P[8] = F(0) /\ R.P[8] = F(0)
               /\ R.P[4] = FMul(FNeg(fx), absdx)
               /\ ~FLt(F(0), R.P[4])

C4_Witness ==
    /\ cam.status = "ok"
    /\ cam.args.left.position = <<F(-1), F(0), F(0)>>
    /\ cam.args.right.position = <<F(1), F(2), F(3)>>
    /\ cam.right.P[4] = F(-4)

\* The principal point of a returned pair.
CamCx == cam.left.K[3]

CamCy == cam.left.K[6]

\* C5 as claimed: the principal point is the floor division of the
\* dimension by 2 and equals the true division: for even positive
\* dimensions the two sanity asserts pass and 2*cx == width, 2*cy ==
\* height, and a returned principal point never differs between floor and
\* true division of the dimension.
C5_PrincipalPointExact ==
    LET w == cam.args.left.width
        h == cam.args.left.height
    IN  /\ (CamReturned /\ ~CamPairInvalid /\ w % 2 = 0 /\ h % 2 = 0)
                => cam.failed \notin {7, 8}
        /\ cam.status = "ok"
                => /\ CamCx = F(w \div 2) /\ CamCy = F(h \div 2)
                   /\ FMul(F(2), CamCx) = F(w)
                   /\ FMul(F(2), CamCy) = F(h)

\* C5 as amended: for even positive dimensions the two sanity asserts pass
\* and 2*cx == width, 2*cy == height; a returned principal point is always
\* the floor division of the dimension by 2, and it differs from the true
\* division exactly when the dimension is odd, which can be returned only
\* where the interpreter's / on ints is floor division: there the two
\* asserts compare floor division with itself and never fail.
C5_PrincipalPointFloor ==
    LET w == cam.args.left.width
        h == cam.args.left.height
    IN  /\ (CamReturned /\ ~CamPairInvalid /\ w % 2 = 0 /\ h % 2 = 0)
                => cam.failed \notin {7, 8}
        /\ (CamReturned /\ cam.args.floor_div) => cam.failed \notin {7, 8}
        /\ cam.status = "ok"
                => /\ CamCx = F(w \div 2) /\ CamCy = F(h \div 2)
                   /\ w % 2 = 0 => FMul(F(2), CamCx) = F(w)
                   /\ h % 2 = 0 => FMul(F(2), CamCy) = F(h)
                   /\ (w % 2 = 1 \/ h % 2 = 1) => cam.args.floor_div

C5_Witness ==
    /\ cam.status = "ok"
    /\ cam.args.floor_div
    /\ cam.args.left.width = 1
    /\ cam.args.left.height = 2
    /\ CamCx = F(0) /\ CamCy = F(1)

\* C6: make_camera_info_msg returns K = [fx,0,cx, 0,fy,cy, 0,0,1], R the
\* identity, the distortion model "plumb_bob" with coefficients [0,0,0,0]
\* and P = [fx,0,cx,Tx, 0,fy,cy,Ty, 0,0,1,0], with width, height and
\* frame_id copied; K and the left 3x3 block of P agree.
C6_CameraInfoLayout ==
    msg.status = "ok"
        => LET a == msg.args
               o == msg.out
               z == <<0, 1>>
               u == <<1, 1>>
           IN  /\ o.K = <<a.fx, z, a.cx, z, a.fy, a.cy, z, z, u>>
               /\ o.R = <<u, z, z, z, u, z, z, z, u>>
               /\ o.distortion_model = "plumb_bob"
               /\ o.D = <<z, z, z, z>>
               /\ o.P = <<a.fx, z, a.cx, a.Tx, z, a.fy, a.cy, a.Ty, z, z, u, z>>
               /\ o.width = a.width /\ o.height = a.height
               /\ o.frame_id = a.frame_id
               /\ \A r \in 0..2, c \in 1..3 : o.P[4 * r + c] = o.K[3 * r + c]

C6_Witness ==
    /\ msg.status = "ok"
    /\ msg.args.frame_id = "right_cam"
    /\ msg.args.Tx = F(-2) /\ msg.args.Ty = F(5)
    /\ msg.args.fx # msg.args.fy
    /\ msg.out.P[4] = F(-2) /\ msg.out.P[8] = F(5)

\* The determinant of a 3x3 matrix.
Det3(M) ==
    FAdd(FSub(FMul(M[1][1], FSub(FMul(M[2][2], M[3][3]), FMul(M[2][3], M[3][2]))),
              FMul(M[1][2], FSub(FMul(M[2][1], M[3][3]), FMul(M[2][3], M[3][1])))),
         FMul(M[1][3], FSub(FMul(M[2][1], M[3][2]), FMul(M[2][2], M[3][1]))))

\* The top-left 3x3 block of a 4x4 matrix.
Block3(T) == <<SubSeq(T[1], 1, 3), SubSeq(T[2], 1, 3), SubSeq(T[3], 1, 3)>>

\* C7: when process_metadata succeeds the output's time and collision
\* status are the input sample's, and the output's transform is the
\* transform its position and quaternion come from: the position is the
\* translation column of the transform and the quaternion is a quaternion
\* of the transform's rotation block.
C7_OutputCarriesTransform ==
    call.status = "ok"
        => LET o == call.out
               T == o.transform
           IN  /\ o.time = call.args.metadata.time
               /\ o.collision_status = call.args.metadata.collision_status
               /\ o.position = <<T[1][4], T[2][4], T[3][4]>>
               /\ o.quaternion.error = "none"
               /\ FLt(F(0), o.quaternion.s)
               /\ Block3(quaternion_matrix(o.quaternion.q)) = Block3(T)

C7_Witness ==
    /\ call.status = "ok"
    /\ call.args.metadata.position = <<F(1), F(2), F(3)>>
    /\ call.args.metadata.quaternion = <<F(0), F(0), F(1), F(2)>>
    /\ call.args.metadata.collision_status
    /\ call.args.metadata.time = F(2)
    /\ call.out.position # <<F(0), F(0), F(0)>>

\* C9: the rotation block of the transform convert_coordinate_frame returns
\* is orthonormal with determinant +1, and the transform's bottom row is
\* [0,0,0,1].
C9_ProperRotation ==
    call.status = "ok"
        => LET T == call.out.transform
               R == Block3(T)
           IN  /\ MatMul(Transpose(R), R)
                    = <<<<F(1), F(0), F(0)>>, <<F(0), F(1), F(0)>>,
                        <<F(0), F(0), F(1)>>>>
               /\ Det3(R) = F(1)
               /\ T[4] = <<F(0), F(0), F(0), F(1)>>

C9_Witness ==
    /\ call.status = "ok"
    /\ call.args.metadata.quaternion = <<F(0), F(0), F(1), F(2)>>
    /\ call.args.metadata.position = <<F(1), F(2), F(3)>>
    /\ call.out.transform[1][1] = <<3, 5>>

CallReturned == call.status \notin {"none", "pending"}

\* C10: along a stream in which each call receives the previous successful
\* call's time, velocity and rotation block, a call fails exactly when
\* dt = current.time - previous.time is negative; a failed call produces no
\* output and leaves the previous sample as it was, and a successful call's
\* time, velocity and rotation block become the previous sample.
C10_FailsIffTimeGoesBack ==
    CallReturned
        => LET a == call.args
               back == FLt(a.metadata.time, a.prev_time)
           IN  /\ call.status # "ok" <=> back
               /\ back => /\ call.status = "AssertionError"
                          /\ call.out = NoOutput
                          /\ prev = [time |-> a.prev_time,
                                     vel_brh |-> a.prev_vel_brh,
                                     enu_R_brh |-> a.prev_enu_R_brh]
               /\ ~back => /\ prev.time = a.metadata.time
                           /\ prev.time = call.out.time
                           /\ prev.vel_brh = call.out.velocity
                           /\ prev.enu_R_brh = Block3(call.out.transform)

C10_Witness ==
    /\ call.status = "AssertionError"
    /\ call.args.metadata.time = F(1)
    /\ prev.time = F(2)
    /\ prev.vel_brh # <<F(0), F(0), F(0)>>
    /\ prev.enu_R_brh # <<<<F(1), F(0), F(0)>>, <<F(0), F(1), F(0)>>,
                          <<F(0), F(0), F(1)>>>>

\* R * v for a 3x3 matrix and a 3-vector, written out.
Lift3(R, v) ==
    << FAdd(FAdd(FMul(R[1][1], v[1]), FMul(R[1][2], v[2])), FMul(R[1][3], v[3])),
       FAdd(FAdd(FMul(R[2][1], v[1]), FMul(R[2][2], v[2])), FMul(R[2][3], v[3])),
       FAdd(FAdd(FMul(R[3][1], v[1]), FMul(R[3][2], v[2])), FMul(R[3][3], v[3])) >>

\* R^T * v for a 3x3 matrix and a 3-vector, written out.
Project3(R, v) ==
    << FAdd(FAdd(FMul(R[1][1], v[1]), FMul(R[2][1], v[2])), FMul(R[3][1], v[3])),
       FAdd(FAdd(FMul(R[1][2], v[1]), FMul(R[2][2], v[2])), FMul(R[3][2], v[3])),
       FAdd(FAdd(FMul(R[1][3], v[1]), FMul(R[2][3], v[2])), FMul(R[3][3], v[3])) >>

\* (u - v) / s, written out.
Rate3(u, v, s) ==
    << FDiv(FSub(u[1], v[1]), s), FDiv(FSub(u[2], v[2]), s),
       FDiv(FSub(u[3], v[3]), s) >>

\* C11: for dt > 0 get_acc_brh returns R_t^T * ((R_t * v_t - R_prev *
\* v_prev) / dt), each velocity lifted with its own sample's rotation and
\* only the current rotation projecting back.  With R_t == R_prev the
\* result is (v_t - v_prev) / dt; with v_t == v_prev the result is zero
\* only when both rotations lift the velocity to the same world vector.
C11_WorldFrameDifference ==
    (AccReturned /\ acc.args.dt[1] > 0)
        => LET a == acc.args
           IN  /\ acc.status = "ok"
               /\ acc.value =
                    Project3(a.enu_R_brh,
                             Rate3(Lift3(a.enu_R_brh, a.vel_brh),
                                   Lift3(a.prev_enu_R_brh, a.prev_vel_brh),
                                   a.dt))
               /\ a.enu_R_brh = a.prev_enu_R_brh
                    => acc.value = Rate3(a.vel_brh, a.prev_vel_brh, a.dt)
               /\ a.vel_brh = a.prev_vel_brh
                    => (acc.value = <<F(0), F(0), F(0)>>
                          <=> Lift3(a.enu_R_brh, a.vel_brh)
                                = Lift3(a.prev_enu_R_brh, a.vel_brh))

C11_Witness ==
    /\ acc.status = "ok"
    /\ acc.args.dt = F(2)
    /\ acc.args.vel_brh = acc.args.prev_vel_brh
    /\ acc.args.vel_brh = <<F(1), F(0), F(0)>>
    /\ acc.args.enu_R_brh[1][1] = <<3, 5>>
    /\ acc.args.prev_enu_R_brh[1][1] = F(1)
    /\ acc.value # <<F(0), F(0), F(0)>>

\* C12: get_vel_brh and get_ang_vel_brh apply the same fixed 3x3 block of
\* brh_T_blh, with no translation: zero maps to zero and f(a + b) =
\* f(a) + f(b); the velocity and ang_vel fields process_metadata returns
\* depend only on the sample's velocity and angular velocity, not on its
\* position, quaternion, time or the previous sample.
C12_TwistIsLinear ==
    twist.status = "ok"
        => LET B == Block3(brh_T_blh)
               zero == <<F(0), F(0), F(0)>>
               sum(u, v) == <<FAdd(u[1], v[1]), FAdd(u[2], v[2]),
                              FAdd(u[3], v[3])>>
           IN  /\ twist.va = Lift3(B, twist.a) /\ twist.vb = Lift3(B, twist.b)
               /\ twist.wa = twist.va /\ twist.wb = twist.vb
               /\ twist.v0 = zero /\ twist.w0 = zero
               /\ twist.vab = sum(twist.va, twist.vb)
               /\ twist.wab = sum(twist.wa, twist.wb)
               /\ twist.p1.status = "ok" /\ twist.p2.status = "ok"
               /\ twist.p1.velocity = twist.va /\ twist.p2.velocity = twist.va
               /\ twist.p1.ang_vel = twist.wb /\ twist.p2.ang_vel = twist.wb

C12_Witness ==
    /\ twist.status = "ok"
    /\ twist.a = <<F(0), F(1), F(0)>> /\ twist.b = <<F(1), F(0), F(0)>>
    /\ twist.c1.quaternion = <<F(0), F(0), F(1), F(2)>>
    /\ twist.c2.quaternion = <<F(1), F(1), F(1), F(1)>>
    /\ twist.vab = <<F(1), F(-1), F(0)>>
    /\ twist.p2.ang_vel = <<F(1), F(0), F(0)>>

====
